---- MODULE Spec2Model ----
(***************************************************************************)
(* Model of scripts/postinstall-codex-global.js: the one-shot bootstrap    *)
(* that provisions ~/.codex/auth.json and ~/.codex/config.toml and then    *)
(* verifies the locally installed Codex CLI.                               *)
(*                                                                         *)
(* Strings and byte contents are sequences of characters.  A JavaScript    *)
(* value that may be null/undefined, and a file that may be absent, is an  *)
(* option: None (the empty tuple) or Some(v) (the one-element tuple <<v>>).*)
(***************************************************************************)
EXTENDS Integers, Sequences, FiniteSets, TLC

VARIABLES
  pc,               \* position of main(): the step about to run, or Done/Exit
  exitCode,         \* option: the process exit status once the run has ended
  exitSite,         \* which process.exit call ended the run ("none" before)
  CODEX_AUTH_JSON,  \* option: process.env.CODEX_AUTH_JSON
  home,             \* option: os.homedir() || HOME || USERPROFILE
  platform,         \* process.platform
  umask,            \* the process file-creation mask
  codexDir,         \* TRUE iff the directory ~/.codex exists
  authFile,         \* option: ~/.codex/auth.json as [content, mode]
  configFile,       \* option: ~/.codex/config.toml as [content, mode]
  repoConfig,       \* option: content of <cwd>/.codex/config.toml
  codexJs,          \* TRUE iff node_modules/@openai/codex/bin/codex.js exists
  binFiles,         \* names present in node_modules/.bin
  start,            \* the home-directory files as they were when the run began
  authOutcome,      \* how ensureAuthFromEnvIfMissing returned in this run
  cfgOutcome,       \* how ensureConfigTomlFromRepo returned in this run
  entry,            \* option: the entrypoint findLocalCodexEntrypoint resolved
  spawnLog,         \* the argv of every subprocess spawned in this run
  verStatus,        \* option of option: res.status of the --version call
  run,              \* how many times the routine has been started
  prev              \* TRUE iff the previous run completed its configuration
                    \* step and the repository file is the same as it was then

vars == <<pc, exitCode, exitSite, CODEX_AUTH_JSON, home, platform, umask,
          codexDir, authFile, configFile, repoConfig, codexJs, binFiles,
          start, authOutcome, cfgOutcome, entry, spawnLog, verStatus, run, prev>>

None == <<>>
Some(v) == <<v>>
Val(o) == o[1]

----------------------------------------------------------------------------
(* Bounds of the model *)

MaxLen == 1       \* longest CODEX_AUTH_JSON value
MaxCfgLen == 1    \* longest repository config content
MaxStatus == 3    \* largest subprocess exit status
MaxRuns == 2      \* how many times the routine is run in a row

Chars == {" ", "s"}
Whitespace == {" "}
CfgBytes == {"k"}

StringsUpTo(alphabet, n) == UNION {[1..k -> alphabet] : k \in 0..n}

----------------------------------------------------------------------------
(* Program constants *)

OwnerRW == 384            \* 0o600
ExitGeneric == 1
ExitMissingConfig == 2
WinCandidates == <<"codex.cmd", "codex.exe", "codex">>
PosixCandidates == <<"codex">>

----------------------------------------------------------------------------
(* Pure helpers *)

RECURSIVE BitAnd(_, _)
BitAnd(a, b) ==
  IF a = 0 \/ b = 0 THEN 0
  ELSE (IF a % 2 = 1 /\ b % 2 = 1 THEN 1 ELSE 0) + 2 * BitAnd(a \div 2, b \div 2)

RECURSIVE TrimStart(_)
TrimStart(s) ==
  IF s = <<>> THEN s
  ELSE IF Head(s) \in Whitespace THEN TrimStart(Tail(s)) ELSE s

RECURSIVE TrimEnd(_)
TrimEnd(s) ==
  IF s = <<>> THEN s
  ELSE IF s[Len(s)] \in Whitespace THEN TrimEnd(SubSeq(s, 1, Len(s) - 1)) ELSE s

\* the test without .trim()
TrimDropped(s) == s

Trim(s) == TrimEnd(TrimStart(s))

\* only the unset variable counts as missing
SecretMissingUnsetOnly(secret) == secret = None

\* !secret || String(secret).trim().length === 0
SecretMissing(secret) ==
  \/ secret = None
  \/ Val(secret) = <<>>
  \/ Len(Trim(Val(secret))) = 0

\* a write that leaves an existing destination as it is (flag wx, error ignored)
WriteFileSyncKeepExisting(file, data, mode, um) ==
  IF file = None
    THEN Some([content |-> data, mode |-> mode - BitAnd(mode, um)])
    ELSE file

\* fs.writeFileSync(path, data, {mode}): the mode is used only on creation
WriteFileSync(file, data, mode, um) ==
  IF file = None
    THEN Some([content |-> data, mode |-> mode - BitAnd(mode, um)])
    ELSE Some([content |-> data, mode |-> Val(file).mode])

\* the chmod call left out
ChmodSyncOmitted(file, mode) == file

\* fs.chmodSync(path, mode)
ChmodSync(file, mode) == Some([content |-> Val(file).content, mode |-> mode])

\* the Windows names tried on every platform
CandidatesAnyPlatform(plat) == WinCandidates

Candidates(plat) == IF plat = "win32" THEN WinCandidates ELSE PosixCandidates

RECURSIVE FirstExisting(_, _)
FirstExisting(names, present) ==
  IF names = <<>> THEN None
  ELSE IF Head(names) \in present
         THEN Some([command |-> Head(names), args |-> <<>>])
         ELSE FirstExisting(Tail(names), present)

findLocalCodexEntrypoint(js, bins, plat) ==
  IF js THEN Some([command |-> "node", args |-> <<"codex.js">>])
  ELSE FirstExisting(Candidates(plat), bins)

\* the subprocess status dropped
VerifyExitStatusGeneric(status) == ExitGeneric

\* process.exit(res.status === null ? 1 : res.status)
VerifyExitStatus(status) == IF status = None THEN ExitGeneric ELSE Val(status)

\* main() with the call of ensureConfigTomlFromRepo left out
SuccessorSkipConfig(step) ==
  CASE step = "Probing" -> "Credential"
    [] step = "Credential" -> "Resolution"
    [] step = "Configuration" -> "Resolution"
    [] step = "Resolution" -> "Verification"
    [] step = "Verification" -> "Done"

\* the order of the calls in main()
Successor(step) ==
  CASE step = "Probing" -> "Credential"
    [] step = "Credential" -> "Configuration"
    [] step = "Configuration" -> "Resolution"
    [] step = "Resolution" -> "Verification"
    [] step = "Verification" -> "Done"

----------------------------------------------------------------------------
(* Value sets *)

Secrets == {None} \cup {Some(s) : s \in StringsUpTo(Chars, MaxLen)}
CfgContents == StringsUpTo(CfgBytes, MaxCfgLen)
RepoStates == {None} \cup {Some(c) : c \in CfgContents}
Statuses == {None} \cup {Some(n) : n \in 0..MaxStatus}
Umasks == {18, 63}      \* 0o022, 0o077
\* files left by something other than this routine
InitAuthFiles == {None, Some([content |-> <<"o">>, mode |-> 420])}
InitConfigFiles == {None, Some([content |-> <<"z">>, mode |-> 420])}
\* node_modules after npm install (with and without @openai/codex), a .bin
\* entry without the package script, and a bare codex.exe
DepLayouts ==
  {[js |-> FALSE, bins |-> {}],
   [js |-> TRUE, bins |-> {"codex", "codex.cmd"}],
   [js |-> FALSE, bins |-> {"codex"}],
   [js |-> FALSE, bins |-> {"codex.exe"}]}
Terminal == {"Done", "Exit"}

Snapshot == [authFile |-> authFile, configFile |-> configFile, codexDir |-> codexDir]

Init ==
  /\ pc = "Probing"
  /\ exitCode = None
  /\ exitSite = "none"
  /\ CODEX_AUTH_JSON \in Secrets
  /\ home \in {None, Some("/home/u")}
  /\ platform \in {"linux", "win32"}
  /\ umask \in Umasks
  /\ authFile \in InitAuthFiles
  /\ configFile \in InitConfigFiles
  /\ codexDir \in (IF authFile = None /\ configFile = None THEN BOOLEAN ELSE {TRUE})
  /\ repoConfig \in RepoStates
  /\ \E d \in DepLayouts : codexJs = d.js /\ binFiles = d.bins
  /\ start = Snapshot
  /\ authOutcome = "pending"
  /\ cfgOutcome = "pending"
  /\ entry = None
  /\ spawnLog = <<>>
  /\ verStatus = None
  /\ run = 1
  /\ prev = FALSE

Env == <<CODEX_AUTH_JSON, home, platform, umask>>
Deps == <<codexJs, binFiles>>

\* every process.exit call made with the generic status
ExitAlwaysGeneric(code, site) ==
  /\ pc' = "Exit"
  /\ exitCode' = Some(ExitGeneric)
  /\ exitSite' = site

\* the early return on an existing credential file left out
authExistsIgnored(file) == FALSE

\* const authExists = fs.existsSync(authPath)
authExists(file) == file # None

\* process.exit(code) at the call site named site
Exit(code, site) ==
  /\ pc' = "Exit"
  /\ exitCode' = Some(code)
  /\ exitSite' = site

Continue ==
  /\ pc' = Successor(pc)
  /\ UNCHANGED <<exitCode, exitSite>>

----------------------------------------------------------------------------
(* The steps of main() *)

\* lines 172-177: logging and the diagnostic `which node`, whose result is
\* only logged
Probe ==
  /\ pc = "Probing"
  /\ \E st \in Statuses :
       spawnLog' = Append(spawnLog,
                     <<IF platform = "win32" THEN "where" ELSE "which", "node">>)
  /\ Continue
  /\ UNCHANGED <<Env, codexDir, authFile, configFile, repoConfig, Deps,
                 start, authOutcome, cfgOutcome, entry, verStatus, run, prev>>

ensureAuthFromEnvIfMissing ==
  /\ pc = "Credential"
  /\ UNCHANGED <<Env, configFile, repoConfig, Deps, start, cfgOutcome, entry,
                 spawnLog, verStatus, run, prev>>
  /\ IF home = None
       THEN /\ authOutcome' = "nohome"
            /\ Continue
            /\ UNCHANGED <<codexDir, authFile>>
     ELSE IF authExists(authFile)
       THEN /\ authOutcome' = "exists"
            /\ Continue
            /\ UNCHANGED <<codexDir, authFile>>
     ELSE IF SecretMissing(CODEX_AUTH_JSON)
       THEN /\ authOutcome' = "noenv"
            /\ Continue
            /\ UNCHANGED <<codexDir, authFile>>
     ELSE LET written == WriteFileSync(authFile, Val(CODEX_AUTH_JSON), OwnerRW, umask)
              partial == WriteFileSync(authFile, <<>>, OwnerRW, umask)
          IN \/ \* mkdirSync throws
                /\ ~codexDir
                /\ UNCHANGED <<codexDir, authFile>>
                /\ authOutcome' = "failed"
                /\ Exit(ExitGeneric, "auth_write")
             \/ \* writeFileSync throws, before or after creating the file
                /\ codexDir' = TRUE
                /\ authFile' \in {authFile, partial}
                /\ authOutcome' = "failed"
                /\ Exit(ExitGeneric, "auth_write")
             \/ \* chmodSync throws and the error is swallowed
                /\ codexDir' = TRUE
                /\ authFile' = written
                /\ authOutcome' = "wrote_nochmod"
                /\ Continue
             \/ /\ codexDir' = TRUE
                /\ authFile' = ChmodSync(written, OwnerRW)
                /\ authOutcome' = "wrote"
                /\ Continue

ensureConfigTomlFromRepo ==
  /\ pc = "Configuration"
  /\ UNCHANGED <<Env, authFile, repoConfig, Deps, start, authOutcome, entry,
                 spawnLog, verStatus, run, prev>>
  /\ IF repoConfig = None
       THEN /\ cfgOutcome' = "missing"
            /\ Exit(ExitMissingConfig, "config_missing")
            /\ UNCHANGED <<codexDir, configFile>>
     ELSE IF home = None
       THEN /\ cfgOutcome' = "nohome"
            /\ Exit(ExitGeneric, "home")
            /\ UNCHANGED <<codexDir, configFile>>
     ELSE LET content == Val(repoConfig)
              written == WriteFileSync(configFile, content, OwnerRW, umask)
              partial == WriteFileSync(configFile, <<>>, OwnerRW, umask)
          IN \/ \* mkdirSync throws
                /\ ~codexDir
                /\ UNCHANGED <<codexDir, configFile>>
                /\ cfgOutcome' = "failed"
                /\ Exit(ExitGeneric, "config_copy")
             \/ \* readFileSync throws, or writeFileSync throws before or
                \* after truncating the destination
                /\ codexDir' = TRUE
                /\ configFile' \in {configFile, partial}
                /\ cfgOutcome' = "failed"
                /\ Exit(ExitGeneric, "config_copy")
             \/ \* chmodSync throws and the error is swallowed
                /\ codexDir' = TRUE
                /\ configFile' = written
                /\ cfgOutcome' = "installed_nochmod"
                /\ Continue
             \/ /\ codexDir' = TRUE
                /\ configFile' = ChmodSync(written, OwnerRW)
                /\ cfgOutcome' = "installed"
                /\ Continue

\* lines 182-186
Resolve ==
  /\ pc = "Resolution"
  /\ entry' = findLocalCodexEntrypoint(codexJs, binFiles, platform)
  /\ IF entry' = None
       THEN Exit(ExitGeneric, "no_entry")
       ELSE Continue
  /\ UNCHANGED <<Env, codexDir, authFile, configFile, repoConfig, Deps,
                 start, authOutcome, cfgOutcome, spawnLog, verStatus, run, prev>>

\* lines 188-189 with runCapture
verifyLocalCodex ==
  /\ pc = "Verification"
  /\ \E st \in Statuses :
       /\ verStatus' = Some(st)
       /\ spawnLog' = Append(spawnLog,
                        <<Val(entry).command>> \o Val(entry).args \o <<"--version">>)
       /\ IF st = Some(0)
            THEN /\ pc' = Successor(pc)
                 /\ exitCode' = Some(0)
                 /\ UNCHANGED exitSite
            ELSE Exit(VerifyExitStatus(st), "verify")
  /\ UNCHANGED <<Env, codexDir, authFile, configFile, repoConfig, Deps,
                 start, authOutcome, cfgOutcome, entry, run, prev>>

\* The routine is run again (the next install event): the environment
\* variable or the repository file may have changed in between.
Rerun ==
  /\ pc \in Terminal
  /\ run < MaxRuns
  /\ run' = run + 1
  /\ pc' = "Probing"
  /\ exitCode' = None
  /\ exitSite' = "none"
  /\ \/ CODEX_AUTH_JSON' \in Secrets /\ UNCHANGED repoConfig
     \/ repoConfig' \in RepoStates /\ UNCHANGED CODEX_AUTH_JSON
  /\ prev' = (cfgOutcome \in {"installed", "installed_nochmod"}
                /\ repoConfig' = repoConfig)
  /\ start' = Snapshot
  /\ authOutcome' = "pending"
  /\ cfgOutcome' = "pending"
  /\ entry' = None
  /\ spawnLog' = <<>>
  /\ verStatus' = None
  /\ UNCHANGED <<home, platform, umask, codexDir, authFile, configFile, Deps>>

Step ==
  \/ Probe
  \/ ensureAuthFromEnvIfMissing
  \/ ensureConfigTomlFromRepo
  \/ Resolve
  \/ verifyLocalCodex

Next == Step \/ Rerun

Spec == Init /\ [][Next]_vars

\* One run of the routine.  Every call in the script is synchronous and the
\* subprocess calls return, so a step that can run does run.
RunSpec == Init /\ [][Step]_vars /\ WF_vars(Step)

----------------------------------------------------------------------------
(* Vocabulary of the properties *)

CredentialStepDone == authOutcome # "pending"
ConfigInstalled == cfgOutcome \in {"installed", "installed_nochmod"}
AuthWritten == authOutcome \in {"wrote", "wrote_nochmod"}
HasNonWhitespace(s) == \E i \in 1..Len(s) : s[i] # " "
VersionInvoked ==
  \E i \in 1..Len(spawnLog) : spawnLog[i][Len(spawnLog[i])] = "--version"
NoLocalEntrypoint ==
  /\ ~codexJs
  /\ IF platform = "win32"
       THEN binFiles \cap {"codex.cmd", "codex.exe", "codex"} = {}
       ELSE "codex" \notin binFiles
\* no permission bit outside owner read/write
WithinOwnerRW(mode) == mode \in {0, 128, 256, 384}
ChainRank(p) ==
  CASE p = "Probing" -> 1
    [] p = "Credential" -> 2
    [] p = "Configuration" -> 3
    [] p = "Resolution" -> 4
    [] p = "Verification" -> 5
    [] p = "Done" -> 6
    [] p = "Exit" -> 7

----------------------------------------------------------------------------
(* C1: a run in which the repository file .codex/config.toml is absent, and  *)
(* in which no filesystem call fails, ends with exit status 2 and has        *)
(* written no file or directory: ~/.codex and its two files are as they were *)
(* when the run began.                                                       *)
C1_MissingConfigExits2NoWrites ==
  (pc \in Terminal /\ repoConfig = None /\ authOutcome # "failed")
    => (exitCode = Some(2) /\ Snapshot = start)

(* C2: in every run that starts with ~/.codex/auth.json present, the file    *)
(* (content and mode) stays what it was at the start of the run, at every    *)
(* point of the run and whatever CODEX_AUTH_JSON holds.                      *)
C2_ExistingAuthUntouched ==
  start.authFile # None => authFile = start.authFile

C2_Witness ==
  /\ pc \in Terminal
  /\ run = 2
  /\ start.authFile # None
  /\ CODEX_AUTH_JSON # None
  /\ HasNonWhitespace(Val(CODEX_AUTH_JSON))
  /\ Val(CODEX_AUTH_JSON) # Val(start.authFile).content
  /\ authOutcome = "exists"

C4_VerifyFailureStatus ==
  (verStatus # None /\ Val(verStatus) # Some(0))
    => /\ pc = "Exit"
       /\ exitSite = "verify"
       /\ exitCode = IF Val(verStatus) = None THEN Some(1) ELSE Val(verStatus)

C4_Witness ==
  /\ verStatus = Some(Some(3))
  /\ pc = "Exit"
  /\ exitCode = Some(3)

(* C5 as stated: a run with neither codex.js nor a platform codex binary     *)
(* ends with exit status 1 and has not invoked --version.                    *)
C5_NoEntrypointExits1 ==
  (pc \in Terminal /\ NoLocalEntrypoint)
    => (exitCode = Some(1) /\ ~VersionInvoked)

(* C5 amended: a run with neither codex.js nor a platform codex binary never *)
(* invokes --version and never reaches Done; it ends with status 1 at the    *)
(* resolution step when the earlier steps completed, and otherwise with the  *)
(* earlier step's status: 2 for a missing repository config, else 1.         *)
C5_NoEntrypointNoVerification ==
  NoLocalEntrypoint
    => /\ ~VersionInvoked
       /\ pc \notin {"Verification", "Done"}
       /\ pc = "Exit" =>
            /\ exitSite \in {"auth_write", "config_missing", "home",
                             "config_copy", "no_entry"}
            /\ ConfigInstalled <=> exitSite = "no_entry"
            /\ exitCode = IF exitSite = "config_missing" THEN Some(2) ELSE Some(1)

C5_Witness ==
  /\ NoLocalEntrypoint
  /\ platform = "linux"
  /\ binFiles = {"codex.exe"}
  /\ ConfigInstalled
  /\ pc = "Exit"
  /\ exitCode = Some(1)

(* C6: whenever the configuration step has completed without a fatal exit,   *)
(* ~/.codex/config.toml holds exactly the content of the repository file,    *)
(* and, when the previous run completed its configuration step and the       *)
(* repository file has not changed since, the same content as that run left. *)
C6_ConfigCopiedVerbatim ==
  ConfigInstalled
    => /\ configFile # None
       /\ repoConfig # None
       /\ Val(configFile).content = Val(repoConfig)
       /\ prev => /\ start.configFile # None
                   /\ Val(configFile).content = Val(start.configFile).content

C6_Witness ==
  /\ ConfigInstalled
  /\ run = 2
  /\ prev
  /\ CODEX_AUTH_JSON # None
  /\ Val(configFile).content = <<"k">>

C8_FatalStatusIn1Or2 ==
  pc = "Exit"
    => /\ exitCode \in {Some(1), Some(2)}
       /\ exitCode = Some(2) <=> exitSite = "config_missing"

(* C8 amended: a fatal termination before the verification step has status 2 *)
(* exactly when the repository config is missing and 1 otherwise; a failed   *)
(* verification ends the run with the subprocess's own non-zero status,      *)
(* whatever it is, or 1 when there is none.                                  *)
C8_FatalStatusBySite ==
  pc = "Exit"
    => /\ exitCode # None
       /\ exitCode # Some(0)
       /\ exitSite = "config_missing" => (exitCode = Some(2) /\ repoConfig = None)
       /\ exitSite \in {"auth_write", "home", "config_copy", "no_entry"}
            => exitCode = Some(1)
       /\ exitSite = "verify"
            => /\ verStatus # None
               /\ exitCode = IF Val(verStatus) = None THEN Some(1) ELSE Val(verStatus)
       /\ (exitSite # "verify" /\ exitCode = Some(2)) => exitSite = "config_missing"
       /\ exitSite # "none"

C8_Witness ==
  /\ pc = "Exit"
  /\ exitSite = "verify"
  /\ exitCode = Some(3)
  /\ repoConfig # None

ChainStep ==
  /\ pc \notin Terminal
  /\ pc' = "Exit" \/ ChainRank(pc') = ChainRank(pc) + 1
  /\ pc' = "Exit" <=> (exitCode' # None /\ exitCode' # Some(0))
  /\ pc' = "Done" <=> exitCode' = Some(0)
  /\ Snapshot' # Snapshot => pc \in {"Credential", "Configuration"}
  /\ authOutcome' # authOutcome <=> pc = "Credential"
  /\ cfgOutcome' # cfgOutcome <=> pc = "Configuration"
  /\ entry' # entry => pc = "Resolution"
  /\ verStatus' # verStatus <=> pc = "Verification"

C10_LinearChain == [][ChainStep]_vars /\ <>(pc \in Terminal)

C10_Witness ==
  /\ pc = "Done"
  /\ Len(spawnLog) = 2
  /\ AuthWritten
  /\ ConfigInstalled
  /\ entry # None

====
